---- MODULE Spec2Model ----
(***************************************************************************)
(* Matching and similarity-caching engine of 7940Bot (src/database.py).    *)
(*                                                                         *)
(* Similarities and scores are floats in the source; here they are         *)
(* integers in hundredths (0.4 is 40, 1.0 is 100).                         *)
(*                                                                         *)
(* Six specifications share the variables:                                 *)
(*   Spec      the similarity oracle and its cache: oracle calls by any    *)
(*             number of matcher tasks, the detached write-back tasks and  *)
(*             the store going down and coming back;                       *)
(*   SpecMatch one find_matching_users call, candidate by candidate and    *)
(*             tag pair by tag pair;                                       *)
(*   SpecRank  the filter / sort / truncate tail of find_matching_users    *)
(*             over lists of candidate results;                            *)
(*   SpecUsers save_user_interests calls on table new_users, with the      *)
(*             clock running and the store going down and coming back;     *)
(*   SpecSelect one find_matching_users call from its SELECT on new_users  *)
(*             to its return, the store staying up;                        *)
(*   SpecDet   one find_matching_users call made twice from the same       *)
(*             inputs: cache, pending write-backs, pool and external       *)
(*             answers.                                                    *)
(***************************************************************************)
EXTENDS Integers, Sequences, FiniteSets, TLC

VARIABLES
    game_similarities,  \* table game_similarities: set of rows
    storeUp,            \* TRUE iff psycopg2.connect succeeds right now
    tasks,              \* write-back tasks created and not yet run (equal tasks
                        \* are kept once: running one or all leaves the same table)
    last,               \* the last oracle call: arguments and outcome
    pc,                 \* where the find_matching_users call is
    base_interests,     \* its argument interests
    threshold,          \* its argument threshold
    candidates,         \* the rows its SELECT fetched, in fetch order
    task,               \* the _calculate_user_similarity task that is running
    results,            \* what asyncio.gather has collected, in task order
    ranked,             \* the list find_matching_users returned
    new_users,          \* table new_users: set of rows
    now,                \* NOW() of the store, in days
    saved,              \* per user id, the last submission that was committed
    query,              \* the user_id argument of find_matching_users and the
                        \* rows its SELECT fetched, in fetch order
    det                 \* SpecDet: the inputs of the call and the list its
                        \* first run returned

storeVars == <<game_similarities, storeUp, tasks, last>>
matchVars == <<pc, base_interests, threshold, candidates, task, results, ranked>>
userVars == <<new_users, now, saved, query>>
vars == <<game_similarities, storeUp, tasks, last,
          pc, base_interests, threshold, candidates, task, results, ranked,
          new_users, now, saved, query, det>>

----------------------------------------------------------------------------
(* Bounds and domains *)

\* Most write-back tasks pending at once.
MaxTasks == 2

Tags == {"a", "b", "c"}

\* The tags the oracle is called with under Spec.
OracleTags == {"a", "b"}

\* What a cache lookup produces: the call raised, returned None, or returned
\* the similarity of a row.
LookupRaised == [kind |-> "raised", similarity |-> 0]
LookupNone == [kind |-> "none", similarity |-> 0]
LookupValue(s) == [kind |-> "value", similarity |-> s]

----------------------------------------------------------------------------
(* The store: table game_similarities *)

\* PRIMARY KEY (game1, game2): two rows collide iff they agree on both
\* columns, in that order.
SameKey(r, g1, g2) == r.game1 = g1 /\ r.game2 = g2

\* similarity FLOAT CHECK (similarity BETWEEN 0 AND 1)
CheckSimilarity(s) == 0 <= s /\ s <= 100

\* MatchingRows with the WHERE clause testing the given order only.
MatchingRowsGivenOrder(table, g1, g2) ==
    {r \in table : SameKey(r, g1, g2)}

\* The rows the SELECT of _get_cached_similarity matches.
MatchingRows(table, g1, g2) ==
    {r \in table : SameKey(r, g1, g2) \/ SameKey(r, g2, g1)}

\* _get_cached_similarity: every value the call can produce. With the store
\* down conn is None and the call raises; fetchone() returns the first
\* matching row, and the SELECT has no ORDER BY, so with several matching
\* rows any of them can be the first.
GetCachedSimilarity(table, up, g1, g2) ==
    IF ~up THEN {LookupRaised}
    ELSE IF MatchingRows(table, g1, g2) = {} THEN {LookupNone}
    ELSE {LookupValue(r.similarity) : r \in MatchingRows(table, g1, g2)}

\* INSERT INTO game_similarities VALUES (g1, g2, s) ON CONFLICT DO NOTHING
InsertOnConflictDoNothing(table, g1, g2, s) ==
    IF \E r \in table : SameKey(r, g1, g2) THEN table
    ELSE IF ~CheckSimilarity(s) THEN table
    ELSE table \cup {[game1 |-> g1, game2 |-> g2, similarity |-> s]}

----------------------------------------------------------------------------
(* The external scoring function and the parsing of its answer *)

\* What client.chat.completions.create can do: raise (network error,
\* timeout, API error) or return a message content.
Contents == {"0.8", " 0.4\n", "0.3", "1.5", "-0.2", "quite similar"}

Responses == {[raises |-> TRUE, content |-> ""]}
             \cup {[raises |-> FALSE, content |-> c] : c \in Contents}

\* float(content.strip()), the value in hundredths; ok is FALSE where float()
\* raises ValueError (the text is no number).
Float(content) ==
    CASE content = "0.8"     -> [ok |-> TRUE, value |-> 80]
      [] content = " 0.4\n"  -> [ok |-> TRUE, value |-> 40]
      [] content = "0.3"     -> [ok |-> TRUE, value |-> 30]
      [] content = "1.5"     -> [ok |-> TRUE, value |-> 150]
      [] content = "-0.2"    -> [ok |-> TRUE, value |-> -20]
      [] OTHER               -> [ok |-> FALSE, value |-> 0]

\* The external function was not called.
NoResponse == [raises |-> FALSE, content |-> ""]

\* The call failed, or its answer cannot be parsed.
Unusable(resp) == resp.raises \/ ~Float(resp.content).ok

\* The responses drawn under SpecMatch.
MatchResponses ==
    {r \in Responses :
        r.raises \/ r.content \in {"0.8", " 0.4\n", "0.3", "quite similar"}}

Min(x, y) == IF x < y THEN x ELSE y
Max(x, y) == IF x > y THEN x ELSE y

\* Clamp with the lower bound left out: min(1.0, x).
ClampUpperOnly(x) == Min(100, x)

\* max(0.0, min(1.0, x))
Clamp(x) == Max(0, Min(100, x))

\* Analyze without the try/except around the external call: its failure
\* leaves the function as an exception.
AnalyzeNoExcept(cached, resp, g1, g2) ==
    IF cached.kind = "raised" THEN
        [result |-> 0, outcome |-> "raised", external |-> FALSE, created |-> {}]
    ELSE IF cached.kind = "value" THEN
        [result |-> cached.similarity, outcome |-> "hit", external |-> FALSE,
         created |-> {}]
    ELSE IF Unusable(resp) THEN
        [result |-> 0, outcome |-> "raised", external |-> TRUE, created |-> {}]
    ELSE
        [result |-> Clamp(Float(resp.content).value), outcome |-> "scored",
         external |-> TRUE,
         created |-> {[game1 |-> g1, game2 |-> g2,
                       similarity |-> Clamp(Float(resp.content).value)]}]

\* Analyze testing `if cached:` in place of `if cached is not None:`: a cached
\* 0.0 counts as a miss.
AnalyzeTruthyCached(cached, resp, g1, g2) ==
    IF cached.kind = "raised" THEN
        [result |-> 0, outcome |-> "raised", external |-> FALSE, created |-> {}]
    ELSE IF cached.kind = "value" /\ cached.similarity # 0 THEN
        [result |-> cached.similarity, outcome |-> "hit", external |-> FALSE,
         created |-> {}]
    ELSE IF Unusable(resp) THEN
        [result |-> 0, outcome |-> "failed", external |-> TRUE, created |-> {}]
    ELSE
        [result |-> Clamp(Float(resp.content).value), outcome |-> "scored",
         external |-> TRUE,
         created |-> {[game1 |-> g1, game2 |-> g2,
                       similarity |-> Clamp(Float(resp.content).value)]}]

\* Analyze with the write-back created in the except branch as well: the 0.0
\* of a failed call is cached.
AnalyzeCachesFailure(cached, resp, g1, g2) ==
    IF cached.kind = "raised" THEN
        [result |-> 0, outcome |-> "raised", external |-> FALSE, created |-> {}]
    ELSE IF cached.kind = "value" THEN
        [result |-> cached.similarity, outcome |-> "hit", external |-> FALSE,
         created |-> {}]
    ELSE IF Unusable(resp) THEN
        [result |-> 0, outcome |-> "failed", external |-> TRUE,
         created |-> {[game1 |-> g1, game2 |-> g2, similarity |-> 0]}]
    ELSE
        [result |-> Clamp(Float(resp.content).value), outcome |-> "scored",
         external |-> TRUE,
         created |-> {[game1 |-> g1, game2 |-> g2,
                       similarity |-> Clamp(Float(resp.content).value)]}]

\* analyze_game_pair once the cache lookup produced `cached`: the outcome
\* ("raised": the lookup's exception leaves the function, "hit", "scored",
\* "failed": the except branch), the value returned (none when raised),
\* whether the external function was called, and the write-back tasks created.
Analyze(cached, resp, g1, g2) ==
    IF cached.kind = "raised" THEN
        [result |-> 0, outcome |-> "raised", external |-> FALSE, created |-> {}]
    ELSE IF cached.kind = "value" THEN
        [result |-> cached.similarity, outcome |-> "hit", external |-> FALSE,
         created |-> {}]
    ELSE IF Unusable(resp) THEN
        [result |-> 0, outcome |-> "failed", external |-> TRUE, created |-> {}]
    ELSE
        [result |-> Clamp(Float(resp.content).value), outcome |-> "scored",
         external |-> TRUE,
         created |-> {[game1 |-> g1, game2 |-> g2,
                       similarity |-> Clamp(Float(resp.content).value)]}]

----------------------------------------------------------------------------
(* Spec: oracle calls, write-backs and store outages *)

NoTask == [user |-> 0, at |-> "none", common |-> {}, pairs |-> <<>>, k |-> 0,
           total |-> 0, valid_pairs |-> 0, caught |-> FALSE, sims |-> <<>>,
           excepted |-> {}]

\* No find_matching_users call is under way.
NoMatch ==
    /\ pc = "idle"
    /\ base_interests = <<>>
    /\ threshold = 0
    /\ candidates = <<>>
    /\ task = NoTask
    /\ results = <<>>
    /\ ranked = <<>>

NoCall == [game1 |-> "", game2 |-> "", cached |-> LookupNone,
           response |-> NoResponse, result |-> 0,
           outcome |-> "none", external |-> FALSE, created |-> {}]

\* Users of the bot: Telegram user ids.
UserIds == {1, 2, 3}

NoSubmission == [done |-> FALSE, username |-> "", interests |-> <<>>,
                 before |-> <<>>]

NoQuery == [user_id |-> 0, fetched |-> <<>>]

NoDet == [cache |-> {}, pending |-> {}, ext |-> <<>>, run |-> 0, first |-> <<>>]

\* Table new_users is empty and no find_matching_users call has read it.
NoUsers ==
    /\ new_users = {}
    /\ now = 0
    /\ saved = [u \in UserIds |-> NoSubmission]
    /\ query = NoQuery

Init ==
    /\ game_similarities = {}
    /\ storeUp = TRUE
    /\ tasks = {}
    /\ last = NoCall
    /\ NoMatch
    /\ NoUsers
    /\ det = NoDet

\* OracleStep with the write-back awaited inside the call: the row is
\* inserted before the call returns and no task is left pending.
OracleStepAwaitsWrite(g1, g2, cached, resp) ==
    LET out == Analyze(cached, resp, g1, g2) IN
    /\ tasks' = tasks
    /\ game_similarities' =
          IF out.created = {} \/ ~storeUp THEN game_similarities
          ELSE InsertOnConflictDoNothing(game_similarities, g1, g2, out.result)
    /\ last' = [game1 |-> g1, game2 |-> g2, cached |-> cached,
                response |-> IF out.external THEN resp ELSE NoResponse,
                result |-> out.result, outcome |-> out.outcome,
                external |-> out.external, created |-> out.created]
    /\ UNCHANGED storeUp

\* One call of analyze_game_pair(g1, g2). It has no suspension point (the
\* lookup and the model call are blocking calls), so it is one step.
OracleStep(g1, g2, cached, resp) ==
    LET out == Analyze(cached, resp, g1, g2) IN
    /\ Cardinality(tasks \cup out.created) <= MaxTasks
    /\ tasks' = tasks \cup out.created
    /\ last' = [game1 |-> g1, game2 |-> g2, cached |-> cached,
                response |-> IF out.external THEN resp ELSE NoResponse,
                result |-> out.result, outcome |-> out.outcome,
                external |-> out.external, created |-> out.created]
    /\ UNCHANGED <<game_similarities, storeUp>>

AnalyzeGamePair(g1, g2) ==
    \E cached \in GetCachedSimilarity(game_similarities, storeUp, g1, g2),
       resp \in Responses :
        /\ OracleStep(g1, g2, cached, resp)
        /\ UNCHANGED matchVars
        /\ UNCHANGED <<userVars, det>>

\* One detached _cache_similarity task runs. It opens its own connection;
\* any exception (the store is down, the insert fails) is caught and printed.
CacheSimilarity(t) ==
    /\ t \in tasks
    /\ tasks' = tasks \ {t}
    /\ game_similarities' =
          IF storeUp
          THEN InsertOnConflictDoNothing(game_similarities, t.game1, t.game2, t.similarity)
          ELSE game_similarities
    /\ UNCHANGED <<storeUp, last>>
    /\ UNCHANGED matchVars
    /\ UNCHANGED <<userVars, det>>

StoreDown ==
    /\ storeUp
    /\ storeUp' = FALSE
    /\ UNCHANGED <<game_similarities, tasks, last>>
    /\ UNCHANGED matchVars
    /\ UNCHANGED <<userVars, det>>

StoreBack ==
    /\ ~storeUp
    /\ storeUp' = TRUE
    /\ UNCHANGED <<game_similarities, tasks, last>>
    /\ UNCHANGED matchVars
    /\ UNCHANGED <<userVars, det>>

OracleCall == \E g1 \in OracleTags : \E g2 \in OracleTags \ {g1} : AnalyzeGamePair(g1, g2)

WriteBack == \E t \in tasks : CacheSimilarity(t)

Next == OracleCall \/ WriteBack \/ StoreDown \/ StoreBack

Spec == Init /\ [][Next]_vars

----------------------------------------------------------------------------
(* _calculate_user_similarity *)

\* The cross-match threshold (0.4).
CrossThreshold == 40

Range(xs) == {xs[i] : i \in DOMAIN xs}

\* common = set(base_interests) & set(candidate_interests)
Common(base, cand) == Range(base) \cap Range(cand)

\* Remain without the filter: the whole list.
RemainAll(xs, common) == xs

\* [g for g in xs if g not in common]
Remain(xs, common) == SelectSeq(xs, LAMBDA g : g \notin common)

\* The pairs (g1, g2) in the order the nested loops visit them.
CrossPairs(base_remain, candidate_remain) ==
    [n \in 1..(Len(base_remain) * Len(candidate_remain)) |->
        <<base_remain[((n - 1) \div Len(candidate_remain)) + 1],
          candidate_remain[((n - 1) % Len(candidate_remain)) + 1]>>]

\* Qualifies without the 0.4 test: `if similarity:`.
QualifiesAny(similarity) == similarity # 0

\* Qualifies with the comparison made strict.
QualifiesStrict(similarity) == similarity # 0 /\ similarity > CrossThreshold

\* if similarity and similarity >= 0.4
Qualifies(similarity) == similarity # 0 /\ similarity >= CrossThreshold

\* round(total / n, 2) for n > 0, total in hundredths: the nearest hundredth,
\* an exact tie going to the even one. (The qualifying similarities drawn
\* here are multiples of 0.2, so a tie needs n to be a multiple of 8.)
Round2(total, n) ==
    LET q == total \div n
        r == total % n
    IN IF 2 * r < n THEN q
       ELSE IF 2 * r > n THEN q + 1
       ELSE IF q % 2 = 0 THEN q ELSE q + 1

\* score = total / valid_pairs if valid_pairs > 0 else 0.0; round(score, 2)
Score(total, valid_pairs) ==
    IF valid_pairs > 0 THEN Round2(total, valid_pairs) ELSE 0

\* task.at once the task has got to position k of its pairs.
TaskAt(t) == IF t.caught \/ t.k > Len(t.pairs) THEN "ended" ELSE "pairs"

\* The dict the task returns.
TaskResult(t, interests) ==
    [user_id |-> t.user,
     score |-> Score(t.total, t.valid_pairs),
     common_games |-> t.common,
     interests |-> interests]

\* gather keeps the result of a task that has ended.
Gathered(t) ==
    IF TaskAt(t) = "ended"
    THEN Append(results, TaskResult(t, candidates[t.user]))
    ELSE results

\* The task of the next candidate starts and runs up to its first oracle
\* call, or to its return when it has no pair to compare. Tasks never
\* suspend, so they run one after the other in candidate order. The
\* interests column is TEXT[], which the driver returns as a list.
BeginTask ==
    /\ pc = "gather"
    /\ task.at \in {"none", "ended"}
    /\ Len(results) < Len(candidates)
    /\ LET i == Len(results) + 1
           common == Common(base_interests, candidates[i])
           t == [user |-> i, at |-> "pairs", common |-> common,
                 pairs |-> CrossPairs(Remain(base_interests, common),
                                      Remain(candidates[i], common)),
                 k |-> 1,
                 total |-> Cardinality(common) * 100,
                 valid_pairs |-> Cardinality(common),
                 caught |-> FALSE, sims |-> <<>>,
                 excepted |-> task.excepted]
       IN /\ task' = [t EXCEPT !.at = TaskAt(t)]
          /\ results' = Gathered(t)
    /\ UNCHANGED <<pc, base_interests, threshold, candidates, ranked>>
    /\ UNCHANGED storeVars
    /\ UNCHANGED <<userVars, det>>

\* One pass of the inner loop body: one oracle call, and the rest of the
\* task when it was the last. An exception leaving analyze_game_pair is
\* caught by the except around both loops, which ends them.
\* answers[<<g1, g2>>] is the set of things the external function can do
\* when asked about (g1, g2).
PairStepFrom(answers) ==
    /\ pc = "gather"
    /\ task.at = "pairs"
    /\ LET g1 == task.pairs[task.k][1]
           g2 == task.pairs[task.k][2]
       IN \E cached \in GetCachedSimilarity(game_similarities, storeUp, g1, g2),
             resp \in answers[<<g1, g2>>] :
            LET out == Analyze(cached, resp, g1, g2)
                t == IF out.outcome = "raised"
                     THEN [task EXCEPT !.caught = TRUE,
                                       !.excepted = @ \cup {task.user}]
                     ELSE [task EXCEPT
                             !.k = @ + 1,
                             !.total = IF Qualifies(out.result) THEN @ + out.result ELSE @,
                             !.valid_pairs = IF Qualifies(out.result) THEN @ + 1 ELSE @,
                             !.sims = Append(@, out.result)]
            IN /\ OracleStep(g1, g2, cached, resp)
               /\ task' = [t EXCEPT !.at = TaskAt(t)]
               /\ results' = Gathered(t)
    /\ UNCHANGED <<pc, base_interests, threshold, candidates, ranked>>
    /\ UNCHANGED <<userVars, det>>

\* The external function can answer anything, whatever it answered before.
PairStep == PairStepFrom([p \in Tags \X Tags |-> MatchResponses])

----------------------------------------------------------------------------
(* find_matching_users: filter, sort, truncate *)

\* The default of the threshold parameter (0.6).
DefaultThreshold == 60

\* The slice [:10].
TopK == 10

\* res.get("score", 0) >= threshold with the comparison made strict.
KeepsStrict(res, th) == res.score > th

\* res.get("score", 0) >= threshold. Every element gather returns is the dict
\* a task returned, so the isinstance test is always true.
Keeps(res, th) == res.score >= th

RECURSIVE Filter(_, _)
Filter(rs, th) ==
    IF rs = <<>> THEN <<>>
    ELSE IF Keeps(Head(rs), th) THEN <<Head(rs)>> \o Filter(Tail(rs), th)
    ELSE Filter(Tail(rs), th)

\* InsertDesc that puts x before the elements of equal score.
InsertDescBeforeEqual(sorted, x) ==
    LET n == Cardinality({j \in 1..Len(sorted) : sorted[j].score > x.score})
    IN SubSeq(sorted, 1, n) \o <<x>> \o SubSeq(sorted, n + 1, Len(sorted))

\* x put into a list sorted by descending score, behind every element whose
\* score is at least x's: sorted() is stable, also with reverse=True.
InsertDesc(sorted, x) ==
    LET n == Cardinality({j \in 1..Len(sorted) : sorted[j].score >= x.score})
    IN SubSeq(sorted, 1, n) \o <<x>> \o SubSeq(sorted, n + 1, Len(sorted))

\* sorted(rs, key=lambda x: x["score"], reverse=True)
RECURSIVE SortedDesc(_)
SortedDesc(rs) ==
    IF rs = <<>> THEN <<>>
    ELSE InsertDesc(SortedDesc(SubSeq(rs, 1, Len(rs) - 1)), rs[Len(rs)])

\* xs[:n]
Slice(xs, n) == SubSeq(xs, 1, Min(n, Len(xs)))

\* The value find_matching_users returns for the gathered results.
Rank(rs, th) == Slice(SortedDesc(Filter(rs, th)), TopK)

\* The return of find_matching_users: every task has delivered its result.
Return ==
    /\ pc = "gather"
    /\ Len(results) = Len(candidates)
    /\ task.at \in {"none", "ended"}
    /\ ranked' = Rank(results, threshold)
    /\ pc' = "returned"
    /\ UNCHANGED <<base_interests, threshold, candidates, task, results>>
    /\ UNCHANGED storeVars
    /\ UNCHANGED <<userVars, det>>

----------------------------------------------------------------------------
(* SpecRank: the tail of find_matching_users over lists of gathered results *)

\* Most gathered results under SpecRank.
MaxResults == 11

RankScores == {50, 60, 100}

\* main.py calls find_matching_users with the default threshold only.
RankThresholds == {DefaultThreshold}

ResultOf(user, score) ==
    [user_id |-> user, score |-> score, common_games |-> {}, interests |-> <<>>]

InitRank ==
    /\ game_similarities = {}
    /\ storeUp = TRUE
    /\ tasks = {}
    /\ last = NoCall
    /\ pc = "gather"
    /\ base_interests = <<>>
    /\ threshold \in RankThresholds
    /\ \E n \in 0..MaxResults :
          /\ candidates = [i \in 1..n |-> <<>>]
          /\ \E sc \in [1..n -> RankScores] :
                results = [i \in 1..n |-> ResultOf(i, sc[i])]
    /\ task = NoTask
    /\ ranked = <<>>
    /\ NoUsers
    /\ det = NoDet

NextRank == Return

SpecRank == InitRank /\ [][NextRank]_vars

----------------------------------------------------------------------------
(* SpecMatch: one find_matching_users call *)

\* Longest interest list.
MaxLen == 2

\* Most candidates the SELECT returns under SpecMatch.
MaxPool == 2

TagOrder == [g \in Tags |-> CASE g = "a" -> 1 [] g = "b" -> 2 [] OTHER -> 3]

\* Interest lists: the tags of a set of at most MaxLen tags, in alphabetical
\* order.
InterestLists ==
    {xs \in UNION {[1..n -> Tags] : n \in 0..MaxLen} :
        \A i \in DOMAIN xs : \A j \in DOMAIN xs :
            i < j => TagOrder[xs[i]] < TagOrder[xs[j]]}

\* Most tags in the interest lists of all candidates together.
MaxPoolTags == 2

RECURSIVE SumLen(_)
SumLen(xss) == IF xss = <<>> THEN 0 ELSE Len(Head(xss)) + SumLen(Tail(xss))

Pools ==
    {pool \in UNION {[1..n -> InterestLists] : n \in 0..MaxPool} :
        SumLen(pool) <= MaxPoolTags}

InitMatch ==
    /\ game_similarities = {}
    /\ storeUp = TRUE
    /\ tasks = {}
    /\ last = NoCall
    /\ pc = "called"
    /\ base_interests \in InterestLists
    /\ threshold = DefaultThreshold
    /\ candidates = <<>>
    /\ task = NoTask
    /\ results = <<>>
    /\ ranked = <<>>
    /\ NoUsers
    /\ det = NoDet

\* find_matching_users up to the gather. With the store down conn is None:
\* conn.cursor() raises AttributeError, and so does conn.close() in the
\* finally block; nothing catches it.
FindMatchingUsers ==
    /\ pc = "called"
    /\ IF storeUp
       THEN /\ pc' = "gather"
            /\ candidates' \in Pools
       ELSE /\ pc' = "raised"
            /\ UNCHANGED candidates
    /\ UNCHANGED <<base_interests, threshold, task, results, ranked>>
    /\ UNCHANGED storeVars
    /\ UNCHANGED <<userVars, det>>

NextMatch ==
    \/ FindMatchingUsers
    \/ BeginTask
    \/ PairStep
    \/ Return
    \/ WriteBack
    \/ StoreDown
    \/ StoreBack

SpecMatch == InitMatch /\ [][NextMatch]_vars

----------------------------------------------------------------------------
(* SpecUsers: save_user_interests on table new_users *)

\* str(user.id): the decimal text of a Telegram user id.
Str(u) == CASE u = 1 -> "1" [] u = 2 -> "2" [] OTHER -> "3"

Usernames == {"ann"}

\* The interest lists submitted: handle_message saves no empty list.
SubmittedLists ==
    {xs \in InterestLists : xs # <<>> /\ Range(xs) \subseteq OracleTags}

\* Last day of the clock under SpecUsers.
MaxNow == 2

\* Upsert whose conflict branch appends the submitted interests to the
\* stored ones.
UpsertAppends(table, user_id, username, interests, at) ==
    IF \E r \in table : r.user_id = user_id
    THEN {IF r.user_id = user_id
          THEN [user_id |-> user_id, username |-> username,
                interests |-> r.interests \o interests, last_active |-> at]
          ELSE r : r \in table}
    ELSE table \cup {[user_id |-> user_id, username |-> username,
                      interests |-> interests, last_active |-> at]}

\* INSERT INTO new_users (user_id, username, interests, last_active)
\* VALUES (user_id, username, interests, NOW())
\* ON CONFLICT (user_id) DO UPDATE SET username = EXCLUDED.username,
\*     interests = EXCLUDED.interests, last_active = NOW()
\* user_id is the PRIMARY KEY: the row of that user_id, if there is one, gets
\* the three other columns of the new row.
Upsert(table, user_id, username, interests, at) ==
    IF \E r \in table : r.user_id = user_id
    THEN {IF r.user_id = user_id
          THEN [r EXCEPT !.username = username, !.interests = interests,
                         !.last_active = at]
          ELSE r : r \in table}
    ELSE table \cup {[user_id |-> user_id, username |-> username,
                      interests |-> interests, last_active |-> at]}

\* One call save_user_interests(u, username, interests). It is a blocking
\* call with one statement and its commit, so it is one step. With the store
\* down it returns False and nothing is written.
SaveUserInterests(u, username, interests) ==
    /\ IF storeUp
       THEN /\ new_users' = Upsert(new_users, Str(u), username, interests, now)
            /\ saved' = [saved EXCEPT ![u] =
                            [done |-> TRUE, username |-> username,
                             interests |-> interests,
                             before |-> IF @.done THEN @.interests ELSE <<>>]]
       ELSE UNCHANGED <<new_users, saved>>
    /\ UNCHANGED <<now, query, det>>
    /\ UNCHANGED storeVars
    /\ UNCHANGED matchVars

Submit ==
    \E u \in UserIds, username \in Usernames, interests \in SubmittedLists :
        SaveUserInterests(u, username, interests)

\* A day passes.
Tick ==
    /\ now < MaxNow
    /\ now' = now + 1
    /\ UNCHANGED <<new_users, saved, query, det>>
    /\ UNCHANGED storeVars
    /\ UNCHANGED matchVars

NextUsers == Submit \/ Tick \/ StoreDown \/ StoreBack

SpecUsers == Init /\ [][NextUsers]_vars

----------------------------------------------------------------------------
(* SpecSelect: find_matching_users from its SELECT on new_users *)

\* INTERVAL '7 days'
RecencyDays == 7

\* SelectedRows with the recency test made non-strict.
SelectedRowsAtLeast(table, user_id, at) ==
    {r \in table : r.user_id # user_id /\ r.last_active >= at - RecencyDays}

\* SELECT user_id, username, interests FROM new_users
\* WHERE user_id != %s AND last_active > NOW() - INTERVAL '7 days'
SelectedRows(table, user_id, at) ==
    {r \in table : r.user_id # user_id /\ r.last_active > at - RecencyDays}

\* The orders in which fetchall() can deliver the rows: the SELECT has no
\* ORDER BY.
FetchOrders(rows) ==
    {f \in [1..Cardinality(rows) -> rows] :
        \A i \in DOMAIN f : \A j \in DOMAIN f : i # j => f[i] # f[j]}

\* The day of the call under SpecSelect.
SelectNow == RecencyDays + 1

\* The days of the last submissions: 8, 7 and 6 days before the call, and
\* the day of the call.
LastActives ==
    {SelectNow - RecencyDays - 1, SelectNow - RecencyDays,
     SelectNow - RecencyDays + 1, SelectNow}

SelectLists == {xs \in SubmittedLists : Len(xs) = 1}

\* A call on a table that earlier submissions have filled: at most one row
\* per user.
InitSelect ==
    /\ game_similarities = {}
    /\ storeUp = TRUE
    /\ tasks = {}
    /\ last = NoCall
    /\ pc = "called"
    /\ base_interests \in SelectLists
    /\ threshold = DefaultThreshold
    /\ candidates = <<>>
    /\ task = NoTask
    /\ results = <<>>
    /\ ranked = <<>>
    /\ now = SelectNow
    /\ \E has \in [UserIds -> BOOLEAN],
          interests \in [UserIds -> SelectLists],
          at \in [UserIds -> LastActives] :
          /\ new_users =
                {[user_id |-> Str(u), username |-> "ann",
                  interests |-> interests[u], last_active |-> at[u]] :
                    u \in {v \in UserIds : has[v]}}
          /\ saved = [u \in UserIds |->
                        IF has[u]
                        THEN [done |-> TRUE, username |-> "ann",
                              interests |-> interests[u], before |-> <<>>]
                        ELSE NoSubmission]
    /\ query = NoQuery
    /\ det = NoDet

\* find_matching_users(u, base_interests) up to the gather, reading table
\* new_users.
SelectCandidates(u) ==
    /\ pc = "called"
    /\ IF storeUp
       THEN \E fetched \in FetchOrders(SelectedRows(new_users, Str(u), now)) :
              /\ pc' = "gather"
              /\ query' = [user_id |-> Str(u), fetched |-> fetched]
              /\ candidates' = [i \in DOMAIN fetched |-> fetched[i].interests]
       ELSE /\ pc' = "raised"
            /\ query' = [user_id |-> Str(u), fetched |-> <<>>]
            /\ UNCHANGED candidates
    /\ UNCHANGED <<base_interests, threshold, task, results, ranked>>
    /\ UNCHANGED <<new_users, now, saved, det>>
    /\ UNCHANGED storeVars

Select == \E u \in UserIds : SelectCandidates(u)

NextSelect ==
    \/ Select
    \/ BeginTask
    \/ PairStep
    \/ Return
    \/ WriteBack

SpecSelect == InitSelect /\ [][NextSelect]_vars

----------------------------------------------------------------------------
(* SpecDet: the same find_matching_users call made twice *)

\* The ordered tag pairs the oracle can be asked about under SpecDet.
DetPairs == {p \in OracleTags \X OracleTags : p[1] # p[2]}

\* The similarities of the rows the cache starts with.
DetSimilarities == {40, 80}

\* The cache states the call can start from: every table with at most one
\* row per (game1, game2). All of them are reachable under Spec.
DetCaches ==
    {{[game1 |-> p[1], game2 |-> p[2], similarity |-> sim[p]] : p \in keys} :
        keys \in SUBSET DetPairs, sim \in [DetPairs -> DetSimilarities]}

\* The write-back tasks earlier calls can have left pending when the external
\* function answers ext: those of the pairs whose answer is a number.
DetPending(ext) ==
    SUBSET {[game1 |-> p[1], game2 |-> p[2],
             similarity |-> Clamp(Float(ext[p].content).value)] :
                p \in {q \in DetPairs : ~Unusable(ext[q])}}

DetPools == UNION {[1..n -> SelectLists] : n \in 0..MaxPool}

\* The call is at its gather: the pool is fetched. The cache, the pending
\* write-backs, the pool and what the external function does for each ordered
\* pair are fixed here for both runs.
InitDet ==
    /\ storeUp = TRUE
    /\ last = NoCall
    /\ pc = "gather"
    /\ base_interests \in SelectLists
    /\ threshold = DefaultThreshold
    /\ candidates \in DetPools
    /\ task = NoTask
    /\ results = <<>>
    /\ ranked = <<>>
    /\ NoUsers
    /\ \E ext \in [DetPairs -> MatchResponses] :
          \E cache \in DetCaches, pending \in DetPending(ext) :
              /\ Cardinality(pending) <= MaxTasks
              /\ game_similarities = cache
              /\ tasks = pending
              /\ det = [cache |-> cache, pending |-> pending, ext |-> ext,
                        run |-> 1, first |-> <<>>]

\* The external function answers a pair the same way every time.
DetPairStep == PairStepFrom([p \in DetPairs |-> {det.ext[p]}])

\* The first run has returned; the call is made again from the same cache
\* state, pending write-backs and pool.
Rerun ==
    /\ pc = "returned"
    /\ det.run = 1
    /\ det' = [det EXCEPT !.run = 2, !.first = ranked]
    /\ pc' = "gather"
    /\ task' = NoTask
    /\ results' = <<>>
    /\ ranked' = <<>>
    /\ game_similarities' = det.cache
    /\ tasks' = det.pending
    /\ last' = NoCall
    /\ UNCHANGED <<storeUp, base_interests, threshold, candidates>>
    /\ UNCHANGED userVars

NextDet ==
    \/ BeginTask
    \/ DetPairStep
    \/ Return
    \/ WriteBack
    \/ Rerun

SpecDet == InitDet /\ [][NextDet]_vars

----------------------------------------------------------------------------
(* Claims about the similarity cache (checked under Spec) *)

\* C1: in every reachable state there is at most one stored entry per
\* unordered tag pair: a row (a,b) and a row (b,a) never coexist.
C1_OneEntryPerUnorderedPair ==
    \A g1 \in OracleTags : \A g2 \in OracleTags :
        Cardinality(MatchingRows(game_similarities, g1, g2)) <= 1

\* C2: cache entries are write-once. Once the lookup of a pair returns s1,
\* no step (in particular no write-back for that pair with another score)
\* changes what the lookup of that pair returns.
C2_WriteOnce ==
    [][\A g1 \in OracleTags : \A g2 \in OracleTags \ {g1} :
          \A r \in game_similarities :
              GetCachedSimilarity(game_similarities, TRUE, g1, g2)
                  = {LookupValue(r.similarity)}
              => GetCachedSimilarity(game_similarities', TRUE, g1, g2)
                  = {LookupValue(r.similarity)}]_vars

----------------------------------------------------------------------------
(* Claims about the similarity oracle (checked under Spec) *)

\* C14: the oracle calls the external scoring function only if the cache
\* lookup returned None; when the lookup returned a similarity, the oracle
\* returns exactly that similarity, makes no external call and creates no
\* write-back task.
C14_ExternalOnlyOnMiss ==
    /\ last.external => last.cached = LookupNone
    /\ last.cached.kind = "value" =>
          /\ last.outcome = "hit"
          /\ last.result = last.cached.similarity
          /\ ~last.external
          /\ last.response = NoResponse
          /\ last.created = {}

\* C14 witness: an oracle call hit a row of similarity 0.0 and returned it.
C14_Witness ==
    /\ last.outcome = "hit"
    /\ last.cached = LookupValue(0)
    /\ last.result = 0
    /\ \E r \in MatchingRows(game_similarities, last.game1, last.game2) :
          r.similarity = 0

\* C15: every score the oracle returns and every score it hands to a
\* write-back task lies in [0, 1]; an external answer below 0 gives 0.0, one
\* above 1 gives 1.0, one inside the interval is kept, and the write-back
\* task carries the score returned.
C15_ScoresInUnitInterval ==
    /\ last.outcome \in {"hit", "scored", "failed"} =>
          (0 <= last.result /\ last.result <= 100)
    /\ \A t \in tasks \cup last.created :
          (0 <= t.similarity /\ t.similarity <= 100)
    /\ last.outcome = "scored" =>
          LET v == Float(last.response.content).value IN
          /\ v < 0 => last.result = 0
          /\ v > 100 => last.result = 100
          /\ (0 <= v /\ v <= 100) => last.result = v
          /\ last.created = {[game1 |-> last.game1, game2 |-> last.game2,
                              similarity |-> last.result]}

\* C15 witness: the answer 1.5 was returned as 1.0 while the write-back of
\* an answer -0.2, taken as 0.0, is pending.
C15_Witness ==
    /\ last.outcome = "scored"
    /\ last.response.content = "1.5"
    /\ last.result = 100
    /\ \E t \in tasks : t.similarity = 0
    /\ \E t \in tasks : t.similarity = 100

\* C19: an oracle call that ends in the except branch (the external call
\* failed or its answer is no number) creates no write-back task and leaves
\* the table alone, so the pair is still absent for the next lookup; every
\* write-back task is created by a call whose answer was parsed, with that
\* answer clamped, and every row that enters the table comes from a
\* write-back task.
C19_FailureNotCached ==
    [][/\ (last' # last /\ last'.outcome = "failed") =>
            /\ tasks' = tasks
            /\ game_similarities' = game_similarities
            /\ MatchingRows(game_similarities', last'.game1, last'.game2) = {}
       /\ \A t \in tasks' \ tasks :
            /\ last'.outcome = "scored"
            /\ ~Unusable(last'.response)
            /\ t = [game1 |-> last'.game1, game2 |-> last'.game2,
                    similarity |-> Clamp(Float(last'.response.content).value)]
       /\ \A r \in game_similarities' \ game_similarities : r \in tasks]_vars

\* C19 witness: the last oracle call failed; no write-back for its pair is
\* pending and no row for it is stored, while the other rows and tasks of
\* earlier parsed answers exist.
C19_Witness ==
    /\ last.outcome = "failed"
    /\ last.result = 0
    /\ MatchingRows(game_similarities, last.game1, last.game2) = {}
    /\ \A t \in tasks : ~(SameKey(t, last.game1, last.game2))
    /\ tasks # {}

----------------------------------------------------------------------------
(* Claims about the ranking (checked under SpecRank) *)

\* C8: the returned list has at most 10 entries, is ordered by non-increasing
\* score, and entries of equal score keep the order their candidates had in
\* the pool.
C8_RankedOrder ==
    pc = "returned" =>
        /\ Len(ranked) <= 10
        /\ \A i \in 1..Len(ranked) : \A j \in 1..Len(ranked) :
              i < j =>
                /\ ranked[i].score >= ranked[j].score
                /\ ranked[i].score = ranked[j].score
                      => ranked[i].user_id < ranked[j].user_id

\* C8 witness: more than 10 candidates pass the threshold, with a tie and
\* with two scores that the sort had to swap.
C8_Witness ==
    /\ pc = "returned"
    /\ Len(ranked) = 10
    /\ Cardinality({i \in 1..Len(results) : results[i].score >= threshold}) > 10
    /\ \E i \in 1..9 : ranked[i].score = ranked[i + 1].score
    /\ \E i \in 1..9 : ranked[i].user_id > ranked[i + 1].user_id

\* C9: no returned entry scores below the threshold, and when at most 10
\* candidates score at least the threshold, every one of them (one scoring
\* exactly the threshold included) is returned.
C9_ThresholdInclusive ==
    pc = "returned" =>
        /\ \A i \in 1..Len(ranked) : ranked[i].score >= threshold
        /\ Cardinality({i \in 1..Len(results) : results[i].score >= threshold}) <= 10
              => \A i \in 1..Len(results) :
                    results[i].score >= threshold
                    => \E j \in 1..Len(ranked) : ranked[j] = results[i]

\* C9 witness: with the default threshold, a candidate scoring exactly 0.6
\* is returned and one scoring below it is not.
C9_Witness ==
    /\ pc = "returned"
    /\ threshold = DefaultThreshold
    /\ \E j \in 1..Len(ranked) : ranked[j].score = DefaultThreshold
    /\ \E i \in 1..Len(results) :
          /\ results[i].score < DefaultThreshold
          /\ \A j \in 1..Len(ranked) : ranked[j].user_id # i

----------------------------------------------------------------------------
(* Claims about find_matching_users and the Match Scorer (checked under
   SpecMatch) *)

\* C4: if the store is unreachable when find_matching_users starts, the call
\* returns an empty list and propagates no error: the call never ends by
\* raising.
C4_UnreachableStoreReturnsEmpty ==
    pc # "raised"

\* C5: a candidate whose scoring failed (an oracle call made for it raised)
\* is absent from the returned list.
C5_FailedCandidateExcluded ==
    pc = "returned" =>
        \A u \in task.excepted : \A j \in 1..Len(ranked) : ranked[j].user_id # u

\* C6: when the store is unavailable during a cache lookup, the lookup counts
\* as a miss: the oracle falls back to the external scoring function for that
\* pair, and every tag pair of the candidate is evaluated.
C6_LookupDegradesToMiss ==
    /\ last.cached.kind = "raised" => last.external
    /\ task.at = "ended" => Len(task.sims) = Len(task.pairs)

\* C7: when the external scoring call for a tag pair fails or returns an
\* unparseable answer, the oracle returns 0.0 for that pair, the pair is not
\* counted as a valid pair, and the evaluation goes on: the task moves to its
\* next pair, or returns its result when that was the last pair, and the
\* call keeps gathering.
C7_ExternalFailureContained ==
    [][(/\ task.at = "pairs"
        /\ last' # last \/ task' # task
        /\ last'.external
        /\ Unusable(last'.response))
       => /\ last'.outcome = "failed"
          /\ last'.result = 0
          /\ task'.valid_pairs = task.valid_pairs
          /\ task'.total = task.total
          /\ task'.sims = Append(task.sims, 0)
          /\ task'.k = task.k + 1
          /\ ~task'.caught
          /\ task'.at = (IF task'.k > Len(task.pairs) THEN "ended" ELSE "pairs")
          /\ task'.at = "ended" =>
                /\ Len(results') = Len(results) + 1
                /\ results'[Len(results')].user_id = task.user
          /\ pc' = "gather"]_vars

\* C7 witness: the call has returned; the last oracle call, made for the
\* second candidate, was an external call that failed; the candidate's other
\* cross pair (0.8) alone makes its score, and the candidate is returned.
C7_Witness ==
    /\ pc = "returned"
    /\ last.external /\ Unusable(last.response)
    /\ task.user = 2
    /\ task.common = {}
    /\ task.sims = <<80, 0>>
    /\ task.valid_pairs = 1
    /\ results[2].score = 80
    /\ \E j \in 1..Len(ranked) : ranked[j].user_id = 2

RECURSIVE SumQualifying(_)
SumQualifying(sims) ==
    IF sims = <<>> THEN 0
    ELSE (IF Head(sims) >= 40 THEN Head(sims) ELSE 0) + SumQualifying(Tail(sims))

\* C10: for a task that has ended, with B the base interests and C the
\* candidate's, the score is (|B \cap C| + the sum of the similarities >= 0.4
\* the oracle returned) / (|B \cap C| + the number of those similarities),
\* rounded to the nearest hundredth, and 0.0 when that denominator is 0;
\* unless a lookup raised, the oracle was asked exactly once for every pair
\* of (B \ C) x (C \ B). In particular the score is 1.0 when B \cap C is
\* not empty and no cross pair qualifies, and 0.0 when B is empty.
C10_ScoreFormula ==
    task.at = "ended" =>
        LET B == Range(base_interests)
            C == Range(candidates[task.user])
            res == results[task.user]
            asked == {task.pairs[n] : n \in 1..Len(task.sims)}
            nq == Cardinality({n \in 1..Len(task.sims) : task.sims[n] >= 40})
            num == Cardinality(B \cap C) * 100 + SumQualifying(task.sims)
            den == Cardinality(B \cap C) + nq
        IN /\ res.user_id = task.user
           /\ res.common_games = B \cap C
           /\ den = 0 => res.score = 0
           /\ den > 0 =>
                /\ 2 * (res.score * den - num) <= den
                /\ 2 * (num - res.score * den) <= den
           /\ ~task.caught =>
                /\ asked = (B \ C) \X (C \ B)
                /\ Len(task.sims) = Cardinality(B \ C) * Cardinality(C \ B)
           /\ (B \cap C # {} /\ nq = 0) => res.score = 100
           /\ B = {} => (res.score = 0 /\ res.common_games = {})

\* C10 witness: one common tag and one cross pair of similarity 0.8 give 0.9.
C10_Witness ==
    /\ task.at = "ended"
    /\ Cardinality(task.common) = 1
    /\ task.sims = <<80>>
    /\ results[task.user].score = 90

\* C16: the write-back is fire-and-forget. A call that scored a pair
\* returns with its write-back task pending and the table untouched; and a
\* step in which a write-back task runs, whether its insert succeeds or
\* fails, changes neither the score the oracle returned nor anything of the
\* enclosing candidate task or find_matching_users call.
C16_WriteBackDetached ==
    [][/\ (last' # last /\ last'.outcome = "scored") =>
            /\ last'.created # {}
            /\ last'.created \subseteq tasks'
            /\ game_similarities' = game_similarities
       /\ (tasks' # tasks /\ tasks' \subseteq tasks) =>
            /\ last' = last
            /\ UNCHANGED matchVars
            /\ ~storeUp => game_similarities' = game_similarities]_vars

\* C16 witness: the call has returned a candidate scored 0.8 from its one
\* cross pair; the write-back of that pair has run and failed (no task is
\* pending and no row is stored for it).
C16_Witness ==
    /\ pc = "returned"
    /\ last.outcome = "scored"
    /\ last.result = 80
    /\ last.created \cap tasks = {}
    /\ MatchingRows(game_similarities, last.game1, last.game2) = {}
    /\ task.common = {}
    /\ task.sims = <<80>>
    /\ \E j \in 1..Len(ranked) :
          ranked[j].user_id = task.user /\ ranked[j].score = 80

\* C17: when find_matching_users has returned, every candidate has its
\* result, in candidate order, no candidate task is between two of its
\* comparisons, the result of the task that ran last is the score of its
\* final total, the list is the ranking of those results, and no candidate
\* in the list has a score computed from a part of its tag pairs (its
\* comparisons were all made).
C17_ReturnAfterAllTasks ==
    pc = "returned" =>
        /\ Len(results) = Len(candidates)
        /\ \A i \in 1..Len(results) : results[i].user_id = i
        /\ task.at \in {"none", "ended"}
        /\ task.at = "ended" =>
              /\ task.user = Len(candidates)
              /\ results[task.user].score = Score(task.total, task.valid_pairs)
        /\ ranked = Rank(results, threshold)
        /\ \A j \in 1..Len(ranked) :
              /\ ranked[j].user_id \notin task.excepted
              /\ ranked[j].user_id = task.user =>
                    Len(task.sims) = Len(task.pairs)

\* C18: the Match Scorer never asks the oracle to compare a tag with itself.
\* common is exactly the intersection of the two interest sets, every pair
\* (g1, g2) of a task has g1 in the base interests minus common, g2 in the
\* candidate's minus common and g1 # g2, and the oracle calls made by the
\* task are the pairs of that list, in order.
C18_NoSelfComparison ==
    /\ last.outcome # "none" => last.game1 # last.game2
    /\ task.at # "none" =>
          LET B == Range(base_interests)
              C == Range(candidates[task.user])
              made == IF task.caught THEN task.k ELSE task.k - 1
          IN /\ task.common = B \cap C
             /\ \A n \in DOMAIN task.pairs :
                   /\ task.pairs[n][1] \in B \ task.common
                   /\ task.pairs[n][2] \in C \ task.common
                   /\ task.pairs[n][1] # task.pairs[n][2]
             /\ made > 0 =>
                   /\ last.game1 = task.pairs[made][1]
                   /\ last.game2 = task.pairs[made][2]

\* C18 witness: base and candidate share a tag and each has another one;
\* the one oracle call compared those two other tags.
C18_Witness ==
    /\ task.at = "ended"
    /\ Cardinality(task.common) = 1
    /\ Len(task.pairs) = 1
    /\ Len(task.sims) = 1
    /\ last.game1 = task.pairs[1][1]
    /\ last.game2 = task.pairs[1][2]
    /\ Len(base_interests) = 2
    /\ Len(candidates[task.user]) = 2

\* C20: every candidate score is exactly 0.0 or lies in [0.4, 1.0].
C20_ScoreZeroOrAtLeastCross ==
    /\ \A i \in 1..Len(results) :
          \/ results[i].score = 0
          \/ (CrossThreshold <= results[i].score /\ results[i].score <= 100)
    /\ \A j \in 1..Len(ranked) :
          (CrossThreshold <= ranked[j].score /\ ranked[j].score <= 100)

\* C20 witness: a candidate with the cross similarities 0.4 and 0.3 scores
\* 0.4: the 0.3 is left out of the average.
C20_Witness ==
    /\ task.at = "ended"
    /\ task.common = {}
    /\ task.sims = <<40, 30>>
    /\ results[task.user].score = 40

----------------------------------------------------------------------------
(* Claims about the user profiles (checked under SpecUsers) *)

\* C11: after any sequence of save_user_interests calls, table new_users
\* holds at most one row per user_id; a user has a row iff one of their
\* submissions was committed, and the interests (and username) of that row
\* are those of the last committed submission: replaced, not accumulated.
C11_OneProfileLastSubmission ==
    /\ \A r \in new_users : \E u \in UserIds : r.user_id = Str(u)
    /\ \A u \in UserIds :
          LET rows == {r \in new_users : r.user_id = Str(u)} IN
          /\ Cardinality(rows) <= 1
          /\ ~saved[u].done => rows = {}
          /\ saved[u].done =>
                \E r \in rows : /\ r.interests = saved[u].interests
                                 /\ r.username = saved[u].username

\* C11 witness: user 1 submitted <<"a">> and later, on another day,
\* <<"b">>; the one row of user 1 holds <<"b">> and the day of the second
\* submission, next to the row of another user.
C11_Witness ==
    /\ saved[1].done
    /\ saved[1].before = <<"a">>
    /\ saved[1].interests = <<"b">>
    /\ \E r \in new_users :
          /\ r.user_id = "1"
          /\ r.interests = <<"b">>
          /\ r.last_active = now
          /\ now > 0
    /\ \E r \in new_users : r.user_id = "2"

----------------------------------------------------------------------------
(* Claims about the candidate pool (checked under SpecSelect) *)

\* C12: no entry of the list find_matching_users returns is the row of the
\* querying user, and none is a row whose last_active is not inside the 7
\* days before the query; every entry is a row of the table with the
\* interests stored there. (The user_id of a result is the position of its
\* row among the rows fetched.)
C12_NoSelfNoStale ==
    pc = "returned" =>
        \A j \in 1..Len(ranked) :
            LET row == query.fetched[ranked[j].user_id] IN
            /\ row.user_id # query.user_id
            /\ row.last_active > now - RecencyDays
            /\ row \in new_users
            /\ ranked[j].interests = row.interests

\* C12 witness: three users have the interests asked for; the querying user
\* submitted today, one user exactly 7 days ago and one 6 days ago. Only
\* the last one is returned.
C12_Witness ==
    /\ pc = "returned"
    /\ Cardinality(new_users) = 3
    /\ \A r \in new_users : r.interests = base_interests
    /\ \E r \in new_users : r.user_id = query.user_id /\ r.last_active = now
    /\ \E r \in new_users : r.last_active = now - RecencyDays
    /\ Len(ranked) = 1
    /\ query.fetched[ranked[1].user_id].last_active = now - RecencyDays + 1
    /\ ranked[1].score = 100

----------------------------------------------------------------------------
(* Claims about repeated calls (checked under SpecDet) *)

\* C13: with the cache state, the pending write-backs, the candidate pool
\* and the external answers fixed, find_matching_users is deterministic:
\* the second run returns the list the first run returned, however the
\* write-backs are scheduled among the candidate and tag-pair evaluations.
C13_Deterministic ==
    (det.run = 2 /\ pc = "returned") => ranked = det.first

====
